---- MODULE Spec2Model ----
(***************************************************************************)
(* Model of consumer.py: a polling consumer that takes widget requests     *)
(* from a request bucket (the queue), applies them to an S3 or DynamoDB    *)
(* sink, and deletes the request object.                                   *)
(*                                                                         *)
(* JSON text is modelled by the value it parses to.  A string is a         *)
(* sequence of tokens, each a single character or an indivisible word      *)
(* without upper-case letters or spaces, so that lower(), replace() and    *)
(* the f-string key building act on it as on characters.  A Python dict    *)
(* is a sequence of [k, v] items in insertion order.                       *)
(***************************************************************************)
EXTENDS Integers, Sequences, FiniteSets, TLC

(***************************************************************************)
(* Bounds of the model.                                                    *)
(***************************************************************************)
\* Largest number of request objects in the request bucket.
MaxMsgs == 2
\* Largest number of collaborator faults injected in one behaviour (SpecF).
MaxFaults == 2
\* Largest number of pairs in otherAttributes of a transformer input.
MaxAttrs == 2

(***************************************************************************)
(* JSON values.                                                            *)
(***************************************************************************)
Str(s) == [t |-> "str", v |-> s]
None == [t |-> "none", v |-> <<>>]
Arr(l) == [t |-> "list", v |-> l]

IsNone(x) == x.t = "none"
IsEmptyStr(x) == x.t = "str" /\ x.v = <<>>

\* Python truthiness of a JSON value: None, "" and [] are falsy.
Truthy(x) == ~(x.t = "none") /\ ~(x.v = <<>>)

(***************************************************************************)
(* Python dicts: items in insertion order, keys unique.                    *)
(***************************************************************************)
Item(k, v) == [k |-> k, v |-> v]

Keys(d) == {d[i].k : i \in 1..Len(d)}

Has(d, k) == k \in Keys(d)

\* d[k] for a key that is present.
Lookup(d, k) == d[CHOOSE i \in 1..Len(d) : d[i].k = k].v

\* d.get(k): None for a missing key.
Get(d, k) == IF Has(d, k) THEN Lookup(d, k) ELSE None

\* d.get(k, default).
GetOr(d, k, default) == IF Has(d, k) THEN Lookup(d, k) ELSE default

\* d[k] = v: replaces the value in place, or appends a new item.
SetItem(d, k, v) ==
    IF Has(d, k)
    THEN [i \in 1..Len(d) |-> IF d[i].k = k THEN Item(k, v) ELSE d[i]]
    ELSE Append(d, Item(k, v))

\* The dict as an unordered attribute map (a DynamoDB item).
AsMap(d) == [k \in Keys(d) |-> Lookup(d, k)]

(***************************************************************************)
(* BaseStorage._kebab_owner                                                *)
(***************************************************************************)
UpperChars == <<"A", "B", "C", "D", "E", "F", "G", "H", "I", "J", "K", "L", "M",
                "N", "O", "P", "Q", "R", "S", "T", "U", "V", "W", "X", "Y", "Z">>
LowerChars == <<"a", "b", "c", "d", "e", "f", "g", "h", "i", "j", "k", "l", "m",
                "n", "o", "p", "q", "r", "s", "t", "u", "v", "w", "x", "y", "z">>

\* str.lower() on one character.
LowerChar(ch) ==
    IF \E i \in 1..Len(UpperChars) : UpperChars[i] = ch
    THEN LowerChars[CHOOSE i \in 1..Len(UpperChars) : UpperChars[i] = ch]
    ELSE ch

\* s.lower().replace(" ", "-")
LowerHyphen(s) ==
    [i \in 1..Len(s) |-> IF LowerChar(s[i]) = " " THEN "-" ELSE LowerChar(s[i])]

UnknownOwner == <<"unknown-owner">>

\* Mutant of kebab_owner: only None, not "", yields the sentinel slug.
kebab_owner_NoneOnly(owner) ==
    IF IsNone(owner) THEN UnknownOwner ELSE LowerHyphen(owner.v)

\* _kebab_owner(owner), owner a JSON string or None; the result is a string.
kebab_owner(owner) ==
    IF ~Truthy(owner) THEN UnknownOwner ELSE LowerHyphen(owner.v)

(***************************************************************************)
(* The widget transformers.                                                *)
(***************************************************************************)
RECURSIVE S3WidgetLoop(_, _, _)
\* The loop of S3Storage._make_widget_from_request from item i on.
S3WidgetLoop(parsed_request, i, widget) ==
    IF i > Len(parsed_request) THEN widget
    ELSE LET key == parsed_request[i].k
             value == parsed_request[i].v
         IN  S3WidgetLoop(parsed_request, i + 1,
                 IF key \in {"type", "requestId"} THEN widget
                 ELSE IF key = "widgetId" THEN SetItem(widget, "id", value)
                 ELSE SetItem(widget, key, value))

make_widget_from_request(parsed_request) == S3WidgetLoop(parsed_request, 1, <<>>)

RECURSIVE FlattenAttrs(_, _, _)
\* The inner loop over otherAttributes: each attr with a name and a value
\* is written to the widget under its name.
FlattenAttrs(attrs, j, widget) ==
    IF j > Len(attrs) THEN widget
    ELSE LET attr == attrs[j]
         IN  FlattenAttrs(attrs, j + 1,
                 IF "name" \in DOMAIN attr /\ "value" \in DOMAIN attr
                 THEN SetItem(widget, attr.name, attr.value)
                 ELSE widget)

RECURSIVE DynamoWidgetLoop(_, _, _)
\* The outer loop of DynamoDBStorage._make_widget_from_request_dynamo.
DynamoWidgetLoop(parsed_request, i, widget) ==
    IF i > Len(parsed_request) THEN widget
    ELSE LET key == parsed_request[i].k
             value == parsed_request[i].v
         IN  DynamoWidgetLoop(parsed_request, i + 1,
                 IF key \in {"type", "requestId"} THEN widget
                 ELSE IF key = "widgetId" THEN SetItem(widget, "id", value)
                 ELSE IF key = "otherAttributes"
                      THEN (IF value.t = "list"
                            THEN FlattenAttrs(value.v, 1, widget)
                            ELSE widget)
                 ELSE SetItem(widget, key, value))

\* "for attr in value" raises TypeError when otherAttributes is null.
FlattenRaises(parsed_request) ==
    \E i \in 1..Len(parsed_request) :
        parsed_request[i].k = "otherAttributes" /\ parsed_request[i].v.t = "none"

\* Mutant of DropEmpty: only None is filtered out.
DropEmpty_KeepsEmptyStrings(widget) ==
    SelectSeq(widget, LAMBDA it : ~IsNone(it.v))

\* Keeps the items whose value is neither None nor "".
DropEmpty(widget) ==
    SelectSeq(widget, LAMBDA it : ~IsNone(it.v) /\ ~IsEmptyStr(it.v))

make_widget_from_request_dynamo(parsed_request) ==
    DropEmpty(DynamoWidgetLoop(parsed_request, 1, <<>>))

(***************************************************************************)
(* The sinks.  A store maps a storage key to the stored widget: for S3     *)
(* the object key to the dumped widget, for DynamoDB the value of the id   *)
(* attribute to the item.                                                  *)
(*                                                                         *)
(* A handler is an operator from the parsed request, the store and the     *)
(* faults of its first and second backend call ("none", "client" for a     *)
(* ClientError, "other" for any other exception) to a result: the          *)
(* exception that leaves it (outcome), the store, the backend calls it     *)
(* issued, each with what it raised ("none", "client", "other", or "404"   *)
(* for the ClientError of a head_object on a missing key), and the         *)
(* warnings and errors it logged.  A failing call leaves the store as it   *)
(* was.                                                                    *)
(***************************************************************************)
EmptyStore == [k \in {} |-> <<>>]

StorePut(store, key, widget) ==
    [k \in DOMAIN store \cup {key} |-> IF k = key THEN widget ELSE store[k]]

StoreRemove(store, key) == [k \in DOMAIN store \ {key} |-> store[k]]

Result(outcome, store, calls, logs) ==
    [outcome |-> outcome, store |-> store, calls |-> calls, logs |-> logs]

Call(api, key, raised) == [api |-> api, key |-> key, raised |-> raised]

FaultKinds == {"client", "other"}

\* The calls that an injected fault hit.
Faulted(calls) == {i \in 1..Len(calls) : calls[i].raised \in FaultKinds}

NoFaults == <<"none", "none">>

\* An f-string's rendering of a JSON string or of None.
Format(x) == CASE x.t = "str" -> x.v [] x.t = "none" -> <<"None">>

\* f"widgets/{owner}/{widget_id}"
S3Key(owner, widget_id) == <<"widgets", "/">> \o owner \o <<"/">> \o Format(widget_id)

\* The subscripts parsed_request['widgetId'] and parsed_request['requestId']
\* of the first log line of both create handlers raise KeyError.
CreateKeyError(parsed_request) ==
    ~Has(parsed_request, "widgetId") \/ ~Has(parsed_request, "requestId")

S3_handle_create_request(parsed_request, store, f) ==
    IF CreateKeyError(parsed_request)
    THEN Result("Exception", store, <<>>, <<>>)
    ELSE LET widget == make_widget_from_request(parsed_request)
             owner == kebab_owner(Get(parsed_request, "owner"))
             key == S3Key(owner, Lookup(widget, "id"))
             put == Call("put_object", key, f[1])
         IN  IF f[1] = "client" THEN Result("ClientError", store, <<put>>, <<>>)
             ELSE IF f[1] = "other" THEN Result("Exception", store, <<put>>, <<>>)
             ELSE Result("ok", StorePut(store, key, widget), <<put>>, <<>>)

\* Mutant of S3_handle_delete_request: no head_object before the delete.
S3_handle_delete_request_NoCheck(parsed_request, store, f) ==
    IF ~Has(parsed_request, "widgetId")
    THEN Result("Exception", store, <<>>, <<>>)
    ELSE LET widget_id == Lookup(parsed_request, "widgetId")
             owner == kebab_owner(GetOr(parsed_request, "owner", Str(<<>>)))
             key == S3Key(owner, widget_id)
         IN  Result("ok", StoreRemove(store, key),
                    <<Call("delete_object", key, "none")>>, <<>>)

\* Mutant of S3_handle_delete_request: delete_object first, head_object after.
S3_handle_delete_request_DeleteFirst(parsed_request, store, f) ==
    IF ~Has(parsed_request, "widgetId")
    THEN Result("Exception", store, <<>>, <<>>)
    ELSE LET widget_id == Lookup(parsed_request, "widgetId")
             owner == kebab_owner(GetOr(parsed_request, "owner", Str(<<>>)))
             key == S3Key(owner, widget_id)
         IN  Result("ok", StoreRemove(store, key),
                    <<Call("delete_object", key, "none"), Call("head_object", key, "404")>>,
                    <<"warning:not_found">>)

S3_handle_delete_request(parsed_request, store, f) ==
    IF ~Has(parsed_request, "widgetId")
    THEN Result("Exception", store, <<>>, <<>>)
    ELSE LET widget_id == Lookup(parsed_request, "widgetId")
             owner == kebab_owner(GetOr(parsed_request, "owner", Str(<<>>)))
             key == S3Key(owner, widget_id)
             head == Call("head_object", key, f[1])
             head404 == Call("head_object", key, "404")
             del == Call("delete_object", key, f[2])
         IN  IF f[1] # "none"
             THEN Result("ok", store, <<head>>, <<"error:delete_failed">>)
             ELSE IF key \notin DOMAIN store
             THEN Result("ok", store, <<head404>>, <<"warning:not_found">>)
             ELSE IF f[2] # "none"
             THEN Result("ok", store, <<head, del>>, <<"error:delete_failed">>)
             ELSE Result("ok", StoreRemove(store, key), <<head, del>>, <<>>)

\* Mutant of S3_handle_update_request: the update is written like a create.
S3_handle_update_request_Writes(parsed_request, store, f) ==
    S3_handle_create_request(parsed_request, store, f)

S3_handle_update_request(parsed_request, store, f) ==
    Result("ok", store, <<>>, <<"warning:update_not_implemented">>)

Dynamo_handle_create_request(parsed_request, store, f) ==
    IF CreateKeyError(parsed_request) \/ FlattenRaises(parsed_request)
    THEN Result("Exception", store, <<>>, <<>>)
    ELSE LET widget_item == make_widget_from_request_dynamo(parsed_request)
             put == Call("put_item", Get(widget_item, "id"), f[1])
             refused == Call("put_item", Get(widget_item, "id"), "validation")
         IN  IF f[1] = "client" THEN Result("ClientError", store, <<put>>, <<>>)
             ELSE IF f[1] = "other" THEN Result("Exception", store, <<put>>, <<>>)
             \* The table's key attribute is id: an item without it is refused.
             ELSE IF ~Has(widget_item, "id")
             THEN Result("ClientError", store, <<refused>>, <<>>)
             ELSE Result("ok",
                         StorePut(store, Lookup(widget_item, "id"), AsMap(widget_item)),
                         <<put>>, <<>>)

\* Mutant of Dynamo_handle_delete_request: the get_item answer is not looked at.
Dynamo_handle_delete_request_NoCheck(parsed_request, store, f) ==
    IF ~Has(parsed_request, "widgetId")
    THEN Result("Exception", store, <<>>, <<>>)
    ELSE LET widget_id == Lookup(parsed_request, "widgetId")
         IN  Result("ok", StoreRemove(store, widget_id),
                    <<Call("get_item", widget_id, "none"),
                      Call("delete_item", widget_id, "none")>>, <<>>)

Dynamo_handle_delete_request(parsed_request, store, f) ==
    IF ~Has(parsed_request, "widgetId")
    THEN Result("Exception", store, <<>>, <<>>)
    ELSE LET widget_id == Lookup(parsed_request, "widgetId")
             get == Call("get_item", widget_id, f[1])
             del == Call("delete_item", widget_id, f[2])
         IN  IF f[1] # "none"
             THEN Result("ok", store, <<get>>, <<"error:delete_failed">>)
             ELSE IF widget_id \notin DOMAIN store
             THEN Result("ok", store, <<get>>, <<"warning:not_found">>)
             ELSE IF f[2] # "none"
             THEN Result("ok", store, <<get, del>>, <<"error:delete_failed">>)
             ELSE Result("ok", StoreRemove(store, widget_id), <<get, del>>, <<>>)

Dynamo_handle_update_request(parsed_request, store, f) ==
    Result("ok", store, <<>>, <<"warning:update_not_implemented">>)

(***************************************************************************)
(* BaseStorage._parse_and_route on the body of a request object, with the  *)
(* handlers of the chosen storage strategy.  A body is [kind, doc]: kind   *)
(* "garbage" does not parse, "array" parses to a JSON value that is no     *)
(* object (its .get raises AttributeError), "object" parses to doc.        *)
(***************************************************************************)
TypeName(x) == Str(<<x>>)

\* Mutant of parse_and_route: a request of unknown type falls through to
\* the delete handler.
parse_and_route_DefaultHandler(strategy, body, store, f) ==
    IF body.kind = "garbage" THEN Result("JSONDecodeError", store, <<>>, <<>>)
    ELSE IF body.kind # "object" THEN Result("Exception", store, <<>>, <<>>)
    ELSE LET parsed_request == body.doc
             request_type == Get(parsed_request, "type")
         IN  IF request_type = TypeName("create")
             THEN (IF strategy = "s3"
                   THEN S3_handle_create_request(parsed_request, store, f)
                   ELSE Dynamo_handle_create_request(parsed_request, store, f))
             ELSE IF request_type = TypeName("update")
             THEN (IF strategy = "s3"
                   THEN S3_handle_update_request(parsed_request, store, f)
                   ELSE Dynamo_handle_update_request(parsed_request, store, f))
             ELSE (IF strategy = "s3"
                   THEN S3_handle_delete_request(parsed_request, store, f)
                   ELSE Dynamo_handle_delete_request(parsed_request, store, f))

parse_and_route(strategy, body, store, f) ==
    IF body.kind = "garbage" THEN Result("JSONDecodeError", store, <<>>, <<>>)
    ELSE IF body.kind # "object" THEN Result("Exception", store, <<>>, <<>>)
    ELSE LET parsed_request == body.doc
             request_type == Get(parsed_request, "type")
         IN  IF request_type = TypeName("create")
             THEN (IF strategy = "s3"
                   THEN S3_handle_create_request(parsed_request, store, f)
                   ELSE Dynamo_handle_create_request(parsed_request, store, f))
             ELSE IF request_type = TypeName("delete")
             THEN (IF strategy = "s3"
                   THEN S3_handle_delete_request(parsed_request, store, f)
                   ELSE Dynamo_handle_delete_request(parsed_request, store, f))
             ELSE IF request_type = TypeName("update")
             THEN (IF strategy = "s3"
                   THEN S3_handle_update_request(parsed_request, store, f)
                   ELSE Dynamo_handle_update_request(parsed_request, store, f))
             ELSE Result("ok", store, <<>>, <<"error:unknown_type">>)

(***************************************************************************)
(* The request bodies the producers drop into the request bucket.          *)
(***************************************************************************)
Type(x) == Item("type", TypeName(x))
RequestId == Item("requestId", Str(<<"r1">>))
WidgetId(x) == Item("widgetId", Str(<<x>>))
Owner(s) == Item("owner", Str(s))
Label(x) == Item("label", Str(<<x>>))
Attr(n, x) == [name |-> n, value |-> Str(x)]
OtherAttributes(l) == Item("otherAttributes", Arr(l))

Garbage == [kind |-> "garbage", doc |-> <<>>]
NonObject == [kind |-> "array", doc |-> <<>>]
Object(d) == [kind |-> "object", doc |-> d]

OwnerAB == <<"A", " ", "b">>
OwnerKebab == <<"a", "-", "b">>

CreateW1 ==
    Object(<<Type("create"), RequestId, WidgetId("w1"), Owner(OwnerAB), Label("L"),
             OtherAttributes(<<Attr("color", <<"red">>)>>)>>)
\* Another owner with the same slug, so the same key on either sink.
CreateW1Again == Object(<<Type("create"), RequestId, WidgetId("w1"), Owner(OwnerKebab)>>)
CreateW2NoOwner == Object(<<Type("create"), RequestId, WidgetId("w2")>>)
\* An attribute pair named id.
CreateW1AttrId ==
    Object(<<Type("create"), RequestId, WidgetId("w1"), Owner(OwnerAB),
             OtherAttributes(<<Attr("id", <<"w2">>)>>)>>)
\* An attribute pair named type.
CreateW2AttrType ==
    Object(<<Type("create"), RequestId, WidgetId("w2"),
             OtherAttributes(<<Attr("type", <<"x">>)>>)>>)
CreateNoWidgetId == Object(<<Type("create"), RequestId, Owner(OwnerAB)>>)
CreateNoRequestId == Object(<<Type("create"), WidgetId("w1"), Owner(OwnerAB)>>)
DeleteW1 == Object(<<Type("delete"), RequestId, WidgetId("w1"), Owner(OwnerAB)>>)
DeleteW2NoOwner == Object(<<Type("delete"), RequestId, WidgetId("w2")>>)
DeleteNoWidgetId == Object(<<Type("delete"), RequestId, Owner(OwnerAB)>>)
UpdateW1 == Object(<<Type("update"), RequestId, WidgetId("w1"), Owner(OwnerAB), Label("M")>>)
Archive == Object(<<Type("archive"), RequestId, WidgetId("w1"), Owner(OwnerAB)>>)
NoType == Object(<<RequestId, WidgetId("w1"), Owner(OwnerAB)>>)

Bodies ==
    {Garbage, NonObject, CreateW1, CreateW1Again, CreateW2NoOwner, CreateW1AttrId,
     CreateW2AttrType, CreateNoWidgetId, CreateNoRequestId, DeleteW1, DeleteW2NoOwner,
     DeleteNoWidgetId, UpdateW1, Archive, NoType}

Strategies == {"s3", "dynamo"}

\* The sink before the consumer starts: empty, or holding the widgets that
\* earlier creates wrote.
InitialStores(strategy) ==
    {EmptyStore,
     parse_and_route(strategy, CreateW1, EmptyStore, NoFaults).store,
     parse_and_route(strategy, CreateW2NoOwner, EmptyStore, NoFaults).store}

(***************************************************************************)
(* State.                                                                  *)
(***************************************************************************)
Consumers == {1, 2}

VARIABLES
    queue,      \* the request bucket: object key -> body
    store,      \* the sink
    strategy,   \* args.d, the storage scheme chosen at startup
    pc,         \* per consumer: its place in main()'s loop
    key,        \* per consumer: main()'s key, 0 for None
    content,    \* per consumer: file_content
    qcalls,     \* per consumer: request-bucket calls of the current cycle
    scalls,     \* per consumer: sink calls of the current cycle
    logs,       \* per consumer: warnings and errors of the current cycle
    delay,      \* per consumer: milliseconds of the current cycle's sleep
    faults,     \* collaborator faults still to be injected
    targ,       \* the argument of a transformer called on its own
    tres        \* its result

vars ==
    <<queue, store, strategy, pc, key, content, qcalls, scalls, logs, delay, faults,
      targ, tres>>

NoKey == 0
NoContent == [kind |-> "none", doc |-> <<>>]

(***************************************************************************)
(* The polling functions.                                                  *)
(***************************************************************************)
\* Mutant of get_next_key_from_bucket: a key another consumer has listed and
\* not yet deleted is hidden from the listing, as by a visibility timeout.
get_next_key_from_bucket_HidesInFlight(q) ==
    LET held == {key[c] : c \in {d \in Consumers : pc[d] \in {"fetch", "process", "ack"}}}
        free == DOMAIN q \ held
    IN  IF free = {} THEN NoKey
        ELSE CHOOSE k \in free : \A j \in free : k <= j

\* list_objects_v2(MaxKeys=1) returns the first key in key order, if any.
get_next_key_from_bucket(q) ==
    IF DOMAIN q = {} THEN NoKey
    ELSE CHOOSE k \in DOMAIN q : \A j \in DOMAIN q : k <= j

get_file_from_s3(q, s3_key) == q[s3_key]

\* delete_object succeeds whether or not the key exists.
delete_file_from_s3(q, s3_key) == [k \in DOMAIN q \ {s3_key} |-> q[k]]

(***************************************************************************)
(* main(): one action per blocking call of the loop.  pc is                *)
(*   "off"        not started                                              *)
(*   "idle"       at the top of the loop                                   *)
(*   "fetch"      a key was listed, before get_file_from_s3                *)
(*   "process"    before process_request                                   *)
(*   "ack"        before the delete that follows successful processing     *)
(*   "poison"     in the JSONDecodeError handler, before its delete        *)
(*   "unhandled"  in the Exception handler, before its delete              *)
(*   "sleep"      in time.sleep(delay)                                     *)
(*   "crashed"    an exception left main()                                 *)
(* A cycle runs from one "idle" to the next; qcalls, scalls, logs and      *)
(* delay describe the current cycle and are reset when the next begins.    *)
(***************************************************************************)
Goto(c, place, ms) ==
    /\ pc' = [pc EXCEPT ![c] = place]
    /\ delay' = [delay EXCEPT ![c] = ms]

Logged(c, lines) == logs' = [logs EXCEPT ![c] = logs[c] \o lines]

QCalled(c, call) == qcalls' = [qcalls EXCEPT ![c] = Append(qcalls[c], call)]

\* The except clause an exception of the try body selects.
Handler(outcome) ==
    CASE outcome = "JSONDecodeError" -> "poison"
      [] outcome = "ClientError" -> "sleep"
      [] outcome = "Exception" -> "unhandled"

HandlerLog(outcome) ==
    CASE outcome = "JSONDecodeError" -> "error:poison"
      [] outcome = "ClientError" -> "error:client"
      [] outcome = "Exception" -> "error:unhandled"

\* The ClientError clause sleeps; the other two clauses delete first.
Caught(c, outcome) ==
    /\ Goto(c, Handler(outcome), IF outcome = "ClientError" THEN 1000 ELSE 0)
    /\ Logged(c, <<HandlerLog(outcome)>>)

Raises(kind) == IF kind = "client" THEN "ClientError" ELSE "Exception"

\* The top of the loop and get_next_key_from_bucket.
List(c) ==
    /\ pc[c] = "idle"
    /\ LET k == get_next_key_from_bucket(queue)
       IN  /\ key' = [key EXCEPT ![c] = k]
           /\ IF k # NoKey THEN Goto(c, "fetch", 0) ELSE Goto(c, "sleep", 100)
    /\ qcalls' = [qcalls EXCEPT ![c] = <<Call("list_objects_v2", NoKey, "none")>>]
    /\ scalls' = [scalls EXCEPT ![c] = <<>>]
    /\ logs' = [logs EXCEPT ![c] = <<>>]
    /\ content' = [content EXCEPT ![c] = NoContent]
    /\ UNCHANGED <<queue, store, strategy, faults, targ, tres>>

\* Mutant of Fetch: the request object is deleted as soon as it is read,
\* before it is processed.
Fetch_DeletesFirst(c) ==
    /\ pc[c] = "fetch"
    /\ key[c] \in DOMAIN queue
    /\ content' = [content EXCEPT ![c] = get_file_from_s3(queue, key[c])]
    /\ queue' = delete_file_from_s3(queue, key[c])
    /\ qcalls' = [qcalls EXCEPT ![c] = qcalls[c] \o <<Call("get_object", key[c], "none"),
                                                      Call("delete_object", key[c], "none")>>]
    /\ Goto(c, "process", 0)
    /\ UNCHANGED <<store, strategy, key, scalls, logs, faults, targ, tres>>

\* get_file_from_s3; a key that is gone raises ClientError (NoSuchKey).
Fetch(c) ==
    /\ pc[c] = "fetch"
    /\ IF key[c] \in DOMAIN queue
       THEN /\ content' = [content EXCEPT ![c] = get_file_from_s3(queue, key[c])]
            /\ QCalled(c, Call("get_object", key[c], "none"))
            /\ Goto(c, "process", 0)
            /\ UNCHANGED logs
       ELSE /\ QCalled(c, Call("get_object", key[c], "NoSuchKey"))
            /\ Caught(c, "ClientError")
            /\ UNCHANGED content
    /\ UNCHANGED <<queue, store, strategy, key, scalls, faults, targ, tres>>

\* storage_strategy.process_request(file_content) with the given faults.
ProcessWith(c, f) ==
    LET r == parse_and_route(strategy, content[c], store, f)
    IN  /\ store' = r.store
        /\ scalls' = [scalls EXCEPT ![c] = r.calls]
        /\ faults' = faults - Cardinality(Faulted(r.calls))
        /\ IF r.outcome = "ok"
           THEN Goto(c, "ack", 0) /\ Logged(c, r.logs)
           ELSE /\ Goto(c, Handler(r.outcome),
                        IF r.outcome = "ClientError" THEN 1000 ELSE 0)
                /\ Logged(c, r.logs \o <<HandlerLog(r.outcome)>>)
        /\ UNCHANGED <<queue, strategy, key, content, qcalls, targ, tres>>

Process(c) ==
    /\ pc[c] = "process"
    /\ ProcessWith(c, NoFaults)

\* delete_file_from_s3 after successful processing, then "continue".
Ack(c) ==
    /\ pc[c] = "ack"
    /\ queue' = delete_file_from_s3(queue, key[c])
    /\ QCalled(c, Call("delete_object", key[c], "none"))
    /\ Goto(c, "idle", 0)
    /\ UNCHANGED <<store, strategy, key, content, scalls, logs, faults, targ, tres>>

\* Mutant of PoisonDelete: the handler logs and does not delete.
PoisonDelete_NoDelete(c) ==
    /\ pc[c] = "poison"
    /\ Goto(c, "idle", 0)
    /\ UNCHANGED <<queue, store, strategy, key, content, qcalls, scalls, logs, faults,
                   targ, tres>>

\* The JSONDecodeError handler's delete; the loop goes on without a sleep.
PoisonDelete(c) ==
    /\ pc[c] = "poison"
    /\ queue' = IF key[c] # NoKey THEN delete_file_from_s3(queue, key[c]) ELSE queue
    /\ IF key[c] # NoKey THEN QCalled(c, Call("delete_object", key[c], "none"))
                         ELSE UNCHANGED qcalls
    /\ Goto(c, "idle", 0)
    /\ UNCHANGED <<store, strategy, key, content, scalls, logs, faults, targ, tres>>

\* Mutant of UnhandledDelete: the handler deletes and does not sleep.
UnhandledDelete_NoSleep(c) ==
    /\ pc[c] = "unhandled"
    /\ queue' = IF key[c] # NoKey THEN delete_file_from_s3(queue, key[c]) ELSE queue
    /\ IF key[c] # NoKey THEN QCalled(c, Call("delete_object", key[c], "none"))
                         ELSE UNCHANGED qcalls
    /\ Goto(c, "idle", 0)
    /\ UNCHANGED <<store, strategy, key, content, scalls, logs, faults, targ, tres>>

\* The Exception handler's delete, followed by time.sleep(1).
UnhandledDelete(c) ==
    /\ pc[c] = "unhandled"
    /\ queue' = IF key[c] # NoKey THEN delete_file_from_s3(queue, key[c]) ELSE queue
    /\ IF key[c] # NoKey THEN QCalled(c, Call("delete_object", key[c], "none"))
                         ELSE UNCHANGED qcalls
    /\ Goto(c, "sleep", 1000)
    /\ UNCHANGED <<store, strategy, key, content, scalls, logs, faults, targ, tres>>

\* time.sleep returns.
Sleep(c) ==
    /\ pc[c] = "sleep"
    /\ pc' = [pc EXCEPT ![c] = "idle"]
    /\ UNCHANGED <<queue, store, strategy, key, content, qcalls, scalls, logs, delay,
                   faults, targ, tres>>

(***************************************************************************)
(* The same calls failing: kind "client" is a ClientError, "other" any     *)
(* other exception.                                                        *)
(***************************************************************************)
\* Mutant of ListFault: key is not reset at the top of the loop, so the
\* Exception clause finds the key of the cycle before and deletes it.
ListFault_StaleKey(c) ==
    /\ pc[c] = "idle"
    /\ faults > 0
    /\ faults' = faults - 1
    /\ \E kind \in FaultKinds :
          /\ qcalls' = [qcalls EXCEPT ![c] = <<Call("list_objects_v2", NoKey, kind)>>]
          /\ logs' = [logs EXCEPT ![c] = <<HandlerLog(Raises(kind))>>]
          /\ IF kind = "other" /\ key[c] # NoKey
             THEN Goto(c, "unhandled", 0)
             ELSE Goto(c, "sleep", 1000)
    /\ scalls' = [scalls EXCEPT ![c] = <<>>]
    /\ content' = [content EXCEPT ![c] = NoContent]
    /\ UNCHANGED <<queue, store, strategy, key, targ, tres>>

\* list_objects_v2 raises: key stays None, so the Exception clause does not
\* delete and goes straight to its sleep.
ListFault(c) ==
    /\ pc[c] = "idle"
    /\ faults > 0
    /\ faults' = faults - 1
    /\ \E kind \in FaultKinds :
          /\ qcalls' = [qcalls EXCEPT ![c] = <<Call("list_objects_v2", NoKey, kind)>>]
          /\ logs' = [logs EXCEPT ![c] = <<HandlerLog(Raises(kind))>>]
    /\ key' = [key EXCEPT ![c] = NoKey]
    /\ scalls' = [scalls EXCEPT ![c] = <<>>]
    /\ content' = [content EXCEPT ![c] = NoContent]
    /\ Goto(c, "sleep", 1000)
    /\ UNCHANGED <<queue, store, strategy, targ, tres>>

\* get_object raises, or the body is not UTF-8.
FetchFault(c) ==
    /\ pc[c] = "fetch"
    /\ faults > 0
    /\ faults' = faults - 1
    /\ \E kind \in FaultKinds :
          /\ QCalled(c, Call("get_object", key[c], kind))
          /\ Caught(c, Raises(kind))
    /\ UNCHANGED <<queue, store, strategy, key, content, scalls, targ, tres>>

\* One backend call of the handler raises.
ProcessFault(c) ==
    /\ pc[c] = "process"
    /\ faults > 0
    /\ \E f \in ({"none"} \cup FaultKinds) \X ({"none"} \cup FaultKinds) :
          /\ Cardinality({i \in 1..2 : f[i] # "none"}) = 1
          /\ Cardinality(Faulted(parse_and_route(strategy, content[c], store, f).calls)) = 1
          /\ ProcessWith(c, f)

\* The delete after successful processing raises.
AckFault(c) ==
    /\ pc[c] = "ack"
    /\ faults > 0
    /\ faults' = faults - 1
    /\ \E kind \in FaultKinds :
          /\ QCalled(c, Call("delete_object", key[c], kind))
          /\ Caught(c, Raises(kind))
    /\ UNCHANGED <<queue, store, strategy, key, content, scalls, targ, tres>>

\* The delete inside an except clause raises: no clause of the same try
\* statement catches it, and the exception leaves the loop and main().
HandlerDeleteFault(c) ==
    /\ pc[c] \in {"poison", "unhandled"}
    /\ key[c] # NoKey
    /\ faults > 0
    /\ faults' = faults - 1
    /\ \E kind \in FaultKinds : QCalled(c, Call("delete_object", key[c], kind))
    /\ Goto(c, "crashed", 0)
    /\ UNCHANGED <<queue, store, strategy, key, content, scalls, logs, targ, tres>>

(***************************************************************************)
(* Specifications.                                                         *)
(***************************************************************************)
Queues == UNION {[1..n -> Bodies] : n \in 0..MaxMsgs}

NoArg == <<>>
NoResult == <<Item("pending", None)>>

InitCommon ==
    /\ strategy \in Strategies
    /\ store \in InitialStores(strategy)
    /\ queue \in Queues
    /\ key = [c \in Consumers |-> NoKey]
    /\ content = [c \in Consumers |-> NoContent]
    /\ qcalls = [c \in Consumers |-> <<>>]
    /\ scalls = [c \in Consumers |-> <<>>]
    /\ logs = [c \in Consumers |-> <<>>]
    /\ delay = [c \in Consumers |-> 0]
    /\ targ = NoArg
    /\ tres = NoResult

\* One consumer, collaborators that do not fail.
Init ==
    /\ InitCommon
    /\ pc = [c \in Consumers |-> IF c = 1 THEN "idle" ELSE "off"]
    /\ faults = 0

Step(c) ==
    \/ List(c)
    \/ Fetch(c)
    \/ Process(c)
    \/ Ack(c)
    \/ PoisonDelete(c)
    \/ UnhandledDelete(c)
    \/ Sleep(c)

Next == \E c \in Consumers : Step(c)

Spec == Init /\ [][Next]_vars

\* One consumer, collaborators that may fail up to MaxFaults times.
InitF ==
    /\ InitCommon
    /\ pc = [c \in Consumers |-> IF c = 1 THEN "idle" ELSE "off"]
    /\ faults = MaxFaults

FaultStep(c) ==
    \/ ListFault(c)
    \/ FetchFault(c)
    \/ ProcessFault(c)
    \/ AckFault(c)
    \/ HandlerDeleteFault(c)

NextF == \E c \in Consumers : Step(c) \/ FaultStep(c)

SpecF == InitF /\ [][NextF]_vars

(***************************************************************************)
(* The transformers called on their own: Init draws a create request,      *)
(* the action applies the transformer to it.                               *)
(***************************************************************************)
AttrNames == {"color", "owner", "id"}
AttrValues == {<<>>, <<"red">>, <<"blue">>}
AttrPairs == {Attr(n, x) : n \in AttrNames, x \in AttrValues}
AttrLists == UNION {[1..n -> AttrPairs] : n \in 0..MaxAttrs}
LabelFields == {<<>>, <<Item("label", Str(<<>>))>>, <<Label("L")>>}

\* Create requests with otherAttributes before or after the other fields.
CreateRequest(label, attrs, first) ==
    <<Type("create"), RequestId>>
        \o (IF first THEN <<OtherAttributes(attrs)>> ELSE <<>>)
        \o <<WidgetId("w1"), Owner(OwnerAB)>> \o label
        \o (IF first THEN <<>> ELSE <<OtherAttributes(attrs)>>)

FlattenInputs ==
    {CreateRequest(label, attrs, first) :
        label \in LabelFields, attrs \in AttrLists, first \in BOOLEAN}

InitT ==
    /\ strategy = "dynamo"
    /\ store = EmptyStore
    /\ queue \in [1..0 -> Bodies]
    /\ pc = [c \in Consumers |-> "off"]
    /\ key = [c \in Consumers |-> NoKey]
    /\ content = [c \in Consumers |-> NoContent]
    /\ qcalls = [c \in Consumers |-> <<>>]
    /\ scalls = [c \in Consumers |-> <<>>]
    /\ logs = [c \in Consumers |-> <<>>]
    /\ delay = [c \in Consumers |-> 0]
    /\ faults = 0
    /\ targ \in FlattenInputs
    /\ tres = NoResult

ApplyFlatten ==
    /\ tres = NoResult
    /\ ~FlattenRaises(targ)
    /\ tres' = make_widget_from_request_dynamo(targ)
    /\ UNCHANGED <<queue, store, strategy, pc, key, content, qcalls, scalls, logs,
                   delay, faults, targ>>

NextT == ApplyFlatten

SpecT == InitT /\ [][NextT]_vars

(***************************************************************************)
(* Vocabulary of the properties.                                           *)
(***************************************************************************)
Range(seq) == {seq[i] : i \in 1..Len(seq)}

\* The request-bucket deletes the consumer issued in its current cycle.
QDeletes(c) == {i \in 1..Len(qcalls[c]) : qcalls[c][i].api = "delete_object"}

\* Exactly one delete call went to the request bucket, for the cycle's key.
DeletedOnce(c) ==
    /\ Cardinality(QDeletes(c)) = 1
    /\ \A i \in QDeletes(c) : qcalls[c][i].key = key[c]

RequestType(body) == Get(body.doc, "type")

IsCreate(body) == body.kind = "object" /\ RequestType(body) = TypeName("create")
IsDelete(body) == body.kind = "object" /\ RequestType(body) = TypeName("delete")
IsUpdate(body) == body.kind = "object" /\ RequestType(body) = TypeName("update")
UnknownType(body) ==
    /\ body.kind = "object"
    /\ RequestType(body) \notin {TypeName("create"), TypeName("delete"), TypeName("update")}

\* The key a request with a widgetId names: widgets/<owner-slug>/<widgetId>
\* on the document sink, the widgetId on the table sink.
TargetKey(strat, req) ==
    IF strat = "s3"
    THEN S3Key(kebab_owner(Get(req, "owner")), Lookup(req, "widgetId"))
    ELSE Lookup(req, "widgetId")

\* The widget a create request stands for on the given sink.
TargetWidget(strat, req) ==
    IF strat = "s3" THEN make_widget_from_request(req)
    ELSE AsMap(make_widget_from_request_dynamo(req))

SinkWrites(calls) ==
    {i \in 1..Len(calls) : calls[i].api \in {"put_object", "put_item"}}
SinkDeletes(calls) ==
    {i \in 1..Len(calls) : calls[i].api \in {"delete_object", "delete_item"}}
SinkChecks(calls) ==
    {i \in 1..Len(calls) : calls[i].api \in {"head_object", "get_item"}}

(***************************************************************************)
(* C1.  A ClientError of a sink call keeps the message.                    *)
(***************************************************************************)
SinkClientError(c) == \E i \in 1..Len(scalls[c]) : scalls[c][i].raised = "client"

\* C1: whenever a sink call made while processing a message raised a
\* ClientError (create or delete, either sink), the loop issues no delete
\* for the message in that cycle, sleeps 1 s, and the message is still in
\* the queue when the loop is back at its top.
C1_BackendErrorKeepsMessage ==
    \A c \in Consumers :
        SinkClientError(c) =>
            /\ QDeletes(c) = {}
            /\ pc[c] \in {"sleep", "idle"}
            /\ delay[c] = 1000
            /\ key[c] \in DOMAIN queue

\* The case of C1: a delete request whose backend call raised ClientError.
C1_Witness ==
    /\ IsDelete(content[1])
    /\ SinkClientError(1)
    /\ pc[1] = "idle"
    /\ key[1] \notin DOMAIN queue

(***************************************************************************)
(* C2.  Poison messages.                                                   *)
(***************************************************************************)
PoisonCycle(c) == content[c].kind = "garbage"

C2_State ==
    \A c \in Consumers :
        PoisonCycle(c) =>
            /\ scalls[c] = <<>>
            /\ pc[c] \in {"process", "poison", "idle"}
            /\ IF pc[c] = "idle"
               THEN DeletedOnce(c) /\ key[c] \notin DOMAIN queue
               ELSE QDeletes(c) = {}

C2_Step ==
    /\ \A c \in Consumers : pc[c] = "process" /\ PoisonCycle(c) => store' = store
    /\ DOMAIN queue' \subseteq DOMAIN queue

\* C2: for a message whose body is not valid JSON, the cycle issues exactly
\* one delete call against the request bucket, for that message's key, and
\* no sink call; the sink is unchanged; the message is gone from the queue
\* when the cycle ends and no key ever comes back, so it is never processed
\* again.
C2_PoisonDeletedOnce == []C2_State /\ [][C2_Step]_vars

C2_Witness ==
    /\ PoisonCycle(1)
    /\ pc[1] = "idle"
    /\ DeletedOnce(1)
    /\ key[1] \notin DOMAIN queue

(***************************************************************************)
(* C3.  Unexpected errors.                                                 *)
(***************************************************************************)
Unexpected(c) == "error:unhandled" \in Range(logs[c])

NoWidgetId(body) ==
    /\ IsCreate(body) \/ IsDelete(body)
    /\ ~Has(body.doc, "widgetId")

C3_State ==
    \A c \in Consumers :
        /\ Unexpected(c) =>
              /\ pc[c] \in {"unhandled", "sleep", "idle"}
              /\ scalls[c] = <<>>
              /\ IF pc[c] = "unhandled"
                 THEN QDeletes(c) = {} /\ delay[c] = 0
                 ELSE /\ DeletedOnce(c)
                      /\ key[c] \notin DOMAIN queue
                      /\ delay[c] = 1000
        /\ NoWidgetId(content[c]) /\ pc[c] # "process" => Unexpected(c)

C3_Step ==
    \A c \in Consumers : pc[c] = "process" /\ pc'[c] = "unhandled" => store' = store

\* C3: when processing raises an error that is neither a JSON parse error
\* nor a ClientError (a create or delete request without widgetId is one,
\* on either sink), the sink is unchanged, the message is deleted from the
\* queue in that cycle, and the loop sleeps 1 s before it polls again.
C3_UnexpectedErrorDeletes == []C3_State /\ [][C3_Step]_vars

C3_Witness ==
    /\ NoWidgetId(content[1])
    /\ IsDelete(content[1])
    /\ pc[1] = "idle"
    /\ delay[1] = 1000
    /\ key[1] \notin DOMAIN queue

(***************************************************************************)
(* C4.  The loop has no exit.                                              *)
(***************************************************************************)
\* C4: once started, the loop never terminates on its own, whatever call
\* fails: no exception leaves main(), the delete calls of the except
\* clauses included.
C4_LoopNeverExits == \A c \in Consumers : pc[c] # "crashed"

(***************************************************************************)
(* C5.  Unknown or missing type.                                           *)
(***************************************************************************)
C5_State ==
    \A c \in Consumers :
        UnknownType(content[c]) =>
            /\ scalls[c] = <<>>
            /\ pc[c] \in {"process", "ack", "idle"}
            /\ delay[c] = 0
            /\ pc[c] # "process" => logs[c] = <<"error:unknown_type">>
            /\ IF pc[c] = "idle"
               THEN DeletedOnce(c) /\ key[c] \notin DOMAIN queue
               ELSE QDeletes(c) = {}

C5_Step ==
    \A c \in Consumers : UnknownType(content[c]) => store' = store

\* C5: for a well-formed JSON request whose type is missing or is none of
\* create, delete, update, processing makes no sink call, the sink is
\* unchanged, and the message is removed from the queue in the same cycle,
\* with no sleep and no retry.
C5_UnknownTypeNoOp == []C5_State /\ [][C5_Step]_vars

C5_Witness ==
    /\ UnknownType(content[1])
    /\ ~Has(content[1].doc, "type")
    /\ pc[1] = "idle"
    /\ DeletedOnce(1)
    /\ key[1] \notin DOMAIN queue

(***************************************************************************)
(* C6.  Delete of an absent widget.                                        *)
(***************************************************************************)
DeleteOfAbsent(c) ==
    /\ pc[c] = "process"
    /\ IsDelete(content[c])
    /\ Has(content[c].doc, "widgetId")
    /\ TargetKey(strategy, content[c].doc) \notin DOMAIN store

C6_Step ==
    \A c \in Consumers :
        /\ DeleteOfAbsent(c) /\ pc'[c] # "process" =>
              /\ store' = store
              /\ SinkDeletes(scalls'[c]) = {}
              /\ Len(scalls'[c]) = 1
              /\ SinkChecks(scalls'[c]) = {1}
              /\ scalls'[c][1].key = TargetKey(strategy, content[c].doc)
              /\ logs'[c] = <<"warning:not_found">>
              /\ pc'[c] = "ack"
        /\ pc[c] = "ack" /\ pc'[c] # "ack" =>
              /\ pc'[c] = "idle"
              /\ key[c] \notin DOMAIN queue'
              /\ qcalls'[c] = Append(qcalls[c], Call("delete_object", key[c], "none"))

\* C6: for a delete request whose widget is absent from the sink, the sink
\* makes its existence check and no delete call, the store is unchanged, a
\* not-found warning is logged, no error reaches the loop, and the loop
\* then removes the message from the queue.
C6_DeleteAbsent == [][C6_Step]_vars

C6_Witness ==
    /\ IsDelete(content[1])
    /\ logs[1] = <<"warning:not_found">>
    /\ pc[1] = "idle"
    /\ key[1] \notin DOMAIN queue

(***************************************************************************)
(* C7.  Delete twice.                                                      *)
(***************************************************************************)
DeleteBodies == {b \in Bodies : IsDelete(b) /\ Has(b.doc, "widgetId")}

\* C7: in every reachable store, for every delete request, running the
\* request twice in a row raises no error on either call, the second call
\* logs the not-found warning and issues no backend delete, and the store
\* after the second call is the store after the first.
C7_DeleteIdempotent ==
    \A b \in DeleteBodies :
        LET first == parse_and_route(strategy, b, store, NoFaults)
            second == parse_and_route(strategy, b, first.store, NoFaults)
        IN  /\ first.outcome = "ok"
            /\ second.outcome = "ok"
            /\ second.logs = <<"warning:not_found">>
            /\ SinkDeletes(second.calls) = {}
            /\ second.store = first.store
            /\ TargetKey(strategy, b.doc) \notin DOMAIN first.store

\* The first delete finds the widget, and the consumer runs it.
C7_Witness ==
    /\ pc[1] = "process"
    /\ content[1] \in DeleteBodies
    /\ TargetKey(strategy, content[1].doc) \in DOMAIN store
    /\ key[1] = 1
    /\ 2 \in DOMAIN queue
    /\ queue[2] = content[1]

(***************************************************************************)
(* C8.  Update is a stub.                                                  *)
(***************************************************************************)
C8_State ==
    \A c \in Consumers :
        IsUpdate(content[c]) =>
            /\ SinkWrites(scalls[c]) = {}
            /\ SinkDeletes(scalls[c]) = {}
            /\ pc[c] \in {"process", "ack", "idle"}
            /\ pc[c] # "process" => logs[c] = <<"warning:update_not_implemented">>
            /\ pc[c] = "idle" => DeletedOnce(c) /\ key[c] \notin DOMAIN queue

C8_Step ==
    \A c \in Consumers : IsUpdate(content[c]) => store' = store

\* C8: an update request issues no put and no delete against the backend
\* and leaves the stored widgets unchanged; it logs a warning, raises no
\* error, and the loop then deletes the message.
C8_UpdateNoOp == []C8_State /\ [][C8_Step]_vars

C8_Witness ==
    /\ IsUpdate(content[1])
    /\ pc[1] = "idle"
    /\ store # EmptyStore
    /\ key[1] \notin DOMAIN queue

(***************************************************************************)
(* C9.  Create overwrites.                                                 *)
(***************************************************************************)
C9_Step ==
    \A c \in Consumers :
        pc[c] = "process" /\ IsCreate(content[c]) /\ pc'[c] = "ack" =>
            LET req == content[c].doc
                k == TargetKey(strategy, req)
            IN  /\ store' = StorePut(store, k, TargetWidget(strategy, req))
                /\ Len(scalls'[c]) = 1
                /\ SinkWrites(scalls'[c]) = {1}
                /\ scalls'[c][1].key = k

\* C9: every create request that is processed writes, with one backend
\* write, the widget derived from it at key widgets/<owner-slug>/<widgetId>
\* (document sink) or at id <widgetId> (table sink), whatever the key held
\* before, and changes no other key.
C9_CreateOverwrites == [][C9_Step]_vars

(***************************************************************************)
(* C10.  The flattened widget.                                             *)
(***************************************************************************)
OtherAttributesAt(req) == CHOOSE i \in 1..Len(req) : req[i].k = "otherAttributes"

PairsOf(req) == req[OtherAttributesAt(req)].v.v

NoEmptyString(widget) == \A i \in 1..Len(widget) : ~IsEmptyStr(widget[i].v)

\* The item of the request writes the widget's key name.
WritesKey(it, name) ==
    \/ it.k = "widgetId" /\ name = "id"
    \/ it.k \notin {"type", "requestId", "widgetId", "otherAttributes"} /\ it.k = name

\* Pair j is the last write of its name in the order the request is read.
LastWrite(req, j) ==
    /\ \A j2 \in (j + 1)..Len(PairsOf(req)) : PairsOf(req)[j2].name # PairsOf(req)[j].name
    /\ \A i \in (OtherAttributesAt(req) + 1)..Len(req) :
          ~WritesKey(req[i], PairsOf(req)[j].name)

\* C10 as stated: the flattened widget has no key with an empty-string
\* value and, for every pair of otherAttributes with a non-empty value,
\* output[name] = value, also when pairs share a name or a pair is named
\* like another field.
C10_FlattenEveryPair ==
    tres # NoResult =>
        /\ NoEmptyString(tres)
        /\ \A j \in 1..Len(PairsOf(targ)) :
              ~IsEmptyStr(PairsOf(targ)[j].value) =>
                  /\ Has(tres, PairsOf(targ)[j].name)
                  /\ Lookup(tres, PairsOf(targ)[j].name) = PairsOf(targ)[j].value

\* C10 amended: the flattened widget has no key with an empty-string value
\* and, for every pair of otherAttributes with a non-empty value that is
\* the last write of its name, output[name] = value.
C10_FlattenLastPair ==
    tres # NoResult =>
        /\ NoEmptyString(tres)
        /\ \A j \in 1..Len(PairsOf(targ)) :
              ~IsEmptyStr(PairsOf(targ)[j].value) /\ LastWrite(targ, j) =>
                  /\ Has(tres, PairsOf(targ)[j].name)
                  /\ Lookup(tres, PairsOf(targ)[j].name) = PairsOf(targ)[j].value

\* Two pairs share a name, the last one decides, and an empty label is dropped.
C10_Witness ==
    /\ tres # NoResult
    /\ Len(PairsOf(targ)) = 2
    /\ PairsOf(targ)[1] = Attr("color", <<"red">>)
    /\ PairsOf(targ)[2] = Attr("color", <<"blue">>)
    /\ Lookup(tres, "color") = Str(<<"blue">>)
    /\ Has(targ, "label")
    /\ ~Has(tres, "label")

(***************************************************************************)
(* The document transformer called on its own.  The inputs are create      *)
(* requests with the required fields, otherAttributes, an optional label   *)
(* and an optional further field named id, read before or after widgetId.  *)
(***************************************************************************)
IdFields == {"none", "before", "after"}

DocumentRequest(label, attrs, idField) ==
    <<Type("create"), RequestId>>
        \o (IF idField = "before" THEN <<Item("id", Str(<<"w2">>))>> ELSE <<>>)
        \o <<WidgetId("w1"), Owner(OwnerAB)>>
        \o (IF idField = "after" THEN <<Item("id", Str(<<"w2">>))>> ELSE <<>>)
        \o label \o <<OtherAttributes(attrs)>>

DocumentInputs ==
    {DocumentRequest(label, attrs, idField) :
        label \in LabelFields, attrs \in AttrLists, idField \in IdFields}

InitD ==
    /\ strategy = "s3"
    /\ store = EmptyStore
    /\ queue \in [1..0 -> Bodies]
    /\ pc = [c \in Consumers |-> "off"]
    /\ key = [c \in Consumers |-> NoKey]
    /\ content = [c \in Consumers |-> NoContent]
    /\ qcalls = [c \in Consumers |-> <<>>]
    /\ scalls = [c \in Consumers |-> <<>>]
    /\ logs = [c \in Consumers |-> <<>>]
    /\ delay = [c \in Consumers |-> 0]
    /\ faults = 0
    /\ targ \in DocumentInputs
    /\ tres = NoResult

ApplyDocument ==
    /\ tres = NoResult
    /\ tres' = make_widget_from_request(targ)
    /\ UNCHANGED <<queue, store, strategy, pc, key, content, qcalls, scalls, logs,
                   delay, faults, targ>>

NextD == ApplyDocument

SpecD == InitD /\ [][NextD]_vars

(***************************************************************************)
(* C11.  The document widget.                                              *)
(***************************************************************************)
\* The request fields other than type, requestId and widgetId.
OtherFields(req) ==
    {i \in 1..Len(req) : req[i].k \notin {"type", "requestId", "widgetId"}}

\* C11: for every valid create request the document widget has no type
\* key, no requestId key and no widgetId key, has id equal to the request's
\* widgetId, and carries every other request field, otherAttributes nested,
\* with the value the request gave it.
C11_DocumentWidget ==
    tres # NoResult =>
        /\ ~Has(tres, "type")
        /\ ~Has(tres, "requestId")
        /\ ~Has(tres, "widgetId")
        /\ Has(tres, "id")
        /\ Lookup(tres, "id") = Lookup(targ, "widgetId")
        /\ \A i \in OtherFields(targ) :
              Has(tres, targ[i].k) /\ Lookup(tres, targ[i].k) = targ[i].v

\* A request whose id field is read after widgetId: the widget's id is the
\* field's value.
C11_Witness ==
    /\ tres # NoResult
    /\ Has(targ, "id")
    /\ Lookup(tres, "id") = Str(<<"w2">>)
    /\ Lookup(targ, "widgetId") = Str(<<"w1">>)

(***************************************************************************)
(* C12.  type and requestId in persisted widgets.                          *)
(***************************************************************************)
\* The top-level keys of a stored widget: a dumped dict on the document
\* sink, an item on the table sink.
WidgetKeys(strat, widget) == IF strat = "s3" THEN Keys(widget) ELSE DOMAIN widget

\* C12: in every reachable state no widget held by the sink, document
\* object or table item, has a top-level key named type or requestId.
C12_NoTypeNoRequestId ==
    \A k \in DOMAIN store :
        /\ "type" \notin WidgetKeys(strategy, store[k])
        /\ "requestId" \notin WidgetKeys(strategy, store[k])

\* The table item written for a create request with a pair named type.
C12_Witness ==
    /\ strategy = "dynamo"
    /\ content[1] = CreateW2AttrType
    /\ pc[1] = "idle"
    /\ Str(<<"w2">>) \in DOMAIN store
    /\ "type" \in DOMAIN store[Str(<<"w2">>)]

(***************************************************************************)
(* Two consumer processes started on the same request bucket and sink.     *)
(***************************************************************************)
\* Largest number of request objects in the bucket the two consumers share.
MaxRaceMsgs == 2

RaceQueues == UNION {[1..n -> Bodies] : n \in 0..MaxRaceMsgs}

Init2 ==
    /\ strategy \in Strategies
    /\ store = EmptyStore
    /\ queue \in RaceQueues
    /\ pc = [c \in Consumers |-> "idle"]
    /\ key = [c \in Consumers |-> NoKey]
    /\ content = [c \in Consumers |-> NoContent]
    /\ qcalls = [c \in Consumers |-> <<>>]
    /\ scalls = [c \in Consumers |-> <<>>]
    /\ logs = [c \in Consumers |-> <<>>]
    /\ delay = [c \in Consumers |-> 0]
    /\ faults = 0
    /\ targ = NoArg
    /\ tres = NoResult

Spec2 == Init2 /\ [][Next]_vars

(***************************************************************************)
(* C13.  Two consumers, one message.                                       *)
(***************************************************************************)
\* The consumer has listed a message and has not yet deleted it.
InFlight(c) == pc[c] \in {"fetch", "process", "ack"} /\ key[c] \in DOMAIN queue

C13_Step ==
    \A c \in Consumers : \A d \in Consumers \ {c} :
        pc[c] = "idle" /\ pc'[c] # "idle" /\ InFlight(d) => key'[c] = key[d]

\* C13: nothing coordinates two consumers of one queue: while one consumer
\* holds a message it has listed and not yet deleted, a listing by the
\* other consumer returns that same message, so both process it.
C13_NoCoordination == [][C13_Step]_vars

\* Both consumers have listed, fetched and processed the same create
\* request, each with its own backend write, and neither has deleted it.
C13_Witness ==
    /\ pc[1] = "ack" /\ pc[2] = "ack"
    /\ key[1] = key[2]
    /\ key[1] \in DOMAIN queue
    /\ IsCreate(content[1])
    /\ content[2] = content[1]
    /\ SinkWrites(scalls[1]) = {1} /\ scalls[1][1].raised = "none"
    /\ SinkWrites(scalls[2]) = {1} /\ scalls[2][1].raised = "none"

(***************************************************************************)
(* _kebab_owner called on its own: Init draws an owner, None or a string   *)
(* of up to MaxOwnerLen characters; the first action applies the function  *)
(* to it, the second applies it again to the slug it returned.             *)
(***************************************************************************)
\* Largest length of an owner string given to _kebab_owner.
MaxOwnerLen == 3

OwnerChars == {"A", "b", "Z", " ", "-"}

OwnerInputs ==
    {None} \cup {Str(s) : s \in UNION {[1..n -> OwnerChars] : n \in 0..MaxOwnerLen}}

Slug(s) == <<Item("slug", Str(s))>>

InitK ==
    /\ strategy = "s3"
    /\ store = EmptyStore
    /\ queue \in [1..0 -> Bodies]
    /\ pc = [c \in Consumers |-> "off"]
    /\ key = [c \in Consumers |-> NoKey]
    /\ content = [c \in Consumers |-> NoContent]
    /\ qcalls = [c \in Consumers |-> <<>>]
    /\ scalls = [c \in Consumers |-> <<>>]
    /\ logs = [c \in Consumers |-> <<>>]
    /\ delay = [c \in Consumers |-> 0]
    /\ faults = 0
    /\ targ \in OwnerInputs
    /\ tres = NoResult

ApplyKebab ==
    /\ tres = NoResult
    /\ tres' = Slug(kebab_owner(targ))
    /\ UNCHANGED <<queue, store, strategy, pc, key, content, qcalls, scalls, logs,
                   delay, faults, targ>>

ApplyKebabAgain ==
    /\ tres # NoResult
    /\ targ # Lookup(tres, "slug")
    /\ targ' = Lookup(tres, "slug")
    /\ tres' = Slug(kebab_owner(Lookup(tres, "slug")))
    /\ UNCHANGED <<queue, store, strategy, pc, key, content, qcalls, scalls, logs,
                   delay, faults>>

NextK == ApplyKebab \/ ApplyKebabAgain

SpecK == InitK /\ [][NextK]_vars

(***************************************************************************)
(* C14.  Owner normalization.                                              *)
(***************************************************************************)
IsUpper(ch) == \E i \in 1..Len(UpperChars) : UpperChars[i] = ch

\* out is s lowercased with each space replaced by a hyphen.
LowercasedHyphenated(s, out) ==
    /\ Len(out) = Len(s)
    /\ \A i \in 1..Len(s) :
          /\ s[i] = " " => out[i] = "-"
          /\ IsUpper(s[i]) =>
                \E n \in 1..Len(UpperChars) : UpperChars[n] = s[i] /\ LowerChars[n] = out[i]
          /\ s[i] # " " /\ ~IsUpper(s[i]) => out[i] = s[i]

\* C14: the slug of an owner string is the string lowercased with each
\* space replaced by a hyphen; None and the empty string give the slug
\* unknown-owner; the function gives one result for one input and maps its
\* own output to itself.
C14_OwnerSlug ==
    tres # NoResult =>
        LET out == Lookup(tres, "slug").v
        IN  /\ IsNone(targ) \/ IsEmptyStr(targ) => out = UnknownOwner
            /\ ~IsNone(targ) /\ ~IsEmptyStr(targ) => LowercasedHyphenated(targ.v, out)
            /\ kebab_owner(targ) = out
            /\ kebab_owner(Str(out)) = out

\* A missing or empty owner gave unknown-owner, and the function applied
\* again to that slug returned it.
C14_Witness ==
    /\ targ = Str(UnknownOwner)
    /\ tres = Slug(UnknownOwner)

(***************************************************************************)
(* C15.  One message at a time, in the order list, fetch, apply, delete.   *)
(***************************************************************************)
\* The request-bucket calls of a cycle are a prefix of: list, get of the
\* listed key, delete of the listed key; a delete that raised may be
\* followed by the delete of the except clause.
CycleOrder(c) ==
    /\ Len(qcalls[c]) <= 4
    /\ Len(qcalls[c]) >= 1 => qcalls[c][1].api = "list_objects_v2"
    /\ Len(qcalls[c]) >= 2 =>
          /\ qcalls[c][2].api = "get_object"
          /\ qcalls[c][2].key = key[c]
          /\ qcalls[c][1].raised = "none"
    /\ \A i \in 3..Len(qcalls[c]) :
          /\ qcalls[c][i].api = "delete_object"
          /\ qcalls[c][i].key = key[c]
    /\ Len(qcalls[c]) = 4 => qcalls[c][3].raised \in FaultKinds

C15_State ==
    \A c \in Consumers :
        /\ CycleOrder(c)
        \* the sink is called only for a message that was fetched
        /\ scalls[c] # <<>> =>
              /\ Len(qcalls[c]) >= 2
              /\ qcalls[c][2].raised = "none"
              /\ content[c] # NoContent
        \* back at the top, the listed message was deleted or an error was
        \* classified and slept on
        /\ pc[c] = "idle" /\ key[c] # NoKey => QDeletes(c) # {} \/ delay[c] = 1000

C15_Step ==
    \A c \in Consumers :
        \* a message is listed only at the top of the loop
        /\ key'[c] # key[c] => pc[c] = "idle"
        \* and fetched only right after it was listed
        /\ content'[c] # content[c] /\ content'[c] # NoContent =>
              pc[c] = "fetch" /\ key[c] \in DOMAIN queue /\ content'[c] = queue[key[c]]
        \* the sink operation of a message comes after its fetch and before
        \* any delete of it
        /\ (store' # store \/ (scalls'[c] # <<>> /\ scalls'[c] # scalls[c])) =>
              \E d \in Consumers : pc[d] = "process" /\ QDeletes(d) = {}
        \* the delete comes after process_request has returned or raised
        /\ (/\ pc[c] # "idle"
            /\ qcalls'[c] # qcalls[c]
            /\ qcalls'[c][Len(qcalls'[c])].api = "delete_object") =>
              pc[c] \in {"ack", "poison", "unhandled"}
        /\ queue' # queue =>
              \E d \in Consumers :
                  /\ pc[d] \in {"ack", "poison", "unhandled"}
                  /\ queue' = delete_file_from_s3(queue, key[d])

\* C15: one consumer handles one message at a time in the order list,
\* fetch, apply to the sink, delete from the queue: the sink is called
\* only for the fetched message and before any delete of it, the delete
\* follows process_request, and nothing is listed or fetched until the
\* cycle has deleted its message or classified an error and left it in
\* place.
C15_OneAtATime == []C15_State /\ [][C15_Step]_vars

\* A create request went through list, fetch, a successful backend write,
\* and the delete, in that order.
C15_Witness ==
    /\ pc[1] = "idle"
    /\ IsCreate(content[1])
    /\ Len(qcalls[1]) = 3
    /\ SinkWrites(scalls[1]) = {1}
    /\ scalls[1][1].raised = "none"
    /\ qcalls[1][3].raised = "none"
    /\ key[1] \notin DOMAIN queue

(***************************************************************************)
(* C16.  The delay policy.                                                 *)
(***************************************************************************)
\* A call of the cycle, to the request bucket or to the sink, raised a
\* ClientError other than the 404 of an existence check.
ServiceError(c) ==
    \/ \E i \in 1..Len(qcalls[c]) : qcalls[c][i].raised \in {"client", "NoSuchKey"}
    \/ \E i \in 1..Len(scalls[c]) : scalls[c][i].raised \in {"client", "validation"}

\* The listing of the cycle returned no key.
ListedNothing(c) ==
    /\ Len(qcalls[c]) = 1
    /\ qcalls[c][1].raised = "none"
    /\ key[c] = NoKey

\* The cycle processed its message without an error and deleted it.
ProcessedAndDeleted(c) ==
    /\ Len(qcalls[c]) = 3
    /\ qcalls[c][3].raised = "none"
    /\ ~ServiceError(c)
    /\ \A line \in Range(logs[c]) :
          line \notin {"error:poison", "error:client", "error:unhandled", "error:delete_failed"}

\* C16: the loop sleeps 100 ms exactly when the listing returned no
\* message; after a message was processed and deleted without error the
\* next poll follows with no sleep; every cycle in which a backend call
\* raised a service error, and every cycle with an unexpected error, ends
\* with a 1 s sleep; there is no sleep between the fetch of a message and
\* its delete.
C16_DelayPolicy ==
    \A c \in Consumers :
        /\ delay[c] = 100 <=> ListedNothing(c)
        /\ pc[c] = "idle" /\ ProcessedAndDeleted(c) => delay[c] = 0
        /\ pc[c] = "idle" /\ (ServiceError(c) \/ Unexpected(c)) => delay[c] = 1000
        /\ pc[c] \in {"fetch", "process", "ack", "poison", "unhandled"} => delay[c] = 0

\* A delete request whose existence check raised a ClientError: the cycle
\* is over and the loop polls again without having slept.
C16_Witness ==
    /\ pc[1] = "idle"
    /\ IsDelete(content[1])
    /\ SinkChecks(scalls[1]) = {1}
    /\ scalls[1][1].raised = "client"
    /\ delay[1] = 0

(***************************************************************************)
(* C17.  Delete: existence check first.                                    *)
(***************************************************************************)
C17_Step ==
    \A c \in Consumers :
        (/\ pc[c] = "process"
         /\ pc'[c] # "process"
         /\ IsDelete(content[c])
         /\ Has(content[c].doc, "widgetId")) =>
            LET calls == scalls'[c]
                k == TargetKey(strategy, content[c].doc)
            IN  /\ Len(calls) \in {1, 2}
                /\ SinkChecks(calls) = {1}
                /\ calls[1].key = k
                /\ SinkWrites(calls) = {}
                /\ Len(calls) = 2 =>
                      /\ SinkDeletes(calls) = {2}
                      /\ calls[2].key = k
                \* the delete is issued exactly when the check reported
                \* the widget present
                /\ SinkDeletes(calls) # {} <=>
                      k \in DOMAIN store /\ calls[1].raised = "none"
                /\ store' # store => store' = StoreRemove(store, k)

\* C17: a delete request on either sink makes exactly one existence check,
\* on the key of the widget (widgets/<owner-slug>/<widgetId> on the
\* document sink, id = widgetId on the table sink), then at most one
\* backend delete, on the same key, after the check and only if the check
\* reported the widget present.
C17_CheckThenDelete == [][C17_Step]_vars

\* A delete request found its widget: the check, then the delete.
C17_Witness ==
    /\ pc[1] = "ack"
    /\ IsDelete(content[1])
    /\ Len(scalls[1]) = 2
    /\ SinkChecks(scalls[1]) = {1}
    /\ SinkDeletes(scalls[1]) = {2}
    /\ scalls[1][2].raised = "none"
    /\ scalls[1][2].key = scalls[1][1].key
    /\ scalls[1][1].key \notin DOMAIN store

(***************************************************************************)
(* One consumer whose loop keeps running: a step of main() that can be     *)
(* taken is eventually taken.  The collaborators fail at most MaxFaults    *)
(* times, and no request object is added to the bucket.                    *)
(***************************************************************************)
SpecL == InitF /\ [][NextF]_vars /\ WF_vars(Next)

(***************************************************************************)
(* C18.  The queue drains.                                                 *)
(***************************************************************************)
\* The bucket is empty and the consumer only lists and sleeps.
Drained == DOMAIN queue = {} /\ pc[1] \in {"idle", "sleep"}

\* C18: with one consumer, a fair loop, no new messages and finitely many
\* failing calls, every message in the queue is eventually removed and the
\* loop ends up idling on the empty queue for ever.
C18_QueueDrains == <>[]Drained

\* An exception has left main() while request objects are in the bucket.
C18_Witness ==
    /\ pc[1] = "crashed"
    /\ DOMAIN queue # {}

(***************************************************************************)
(* One consumer with a sink that is down: every backend call of every      *)
(* attempt raises a ClientError (a denied permission, say).  The request   *)
(* bucket works.                                                           *)
(***************************************************************************)
SinkDown == <<"client", "client">>

\* storage_strategy.process_request(file_content) against the sink that is
\* down.
ProcessDown(c) ==
    /\ pc[c] = "process"
    /\ LET r == parse_and_route(strategy, content[c], store, SinkDown)
       IN  /\ store' = r.store
           /\ scalls' = [scalls EXCEPT ![c] = r.calls]
           /\ IF r.outcome = "ok"
              THEN Goto(c, "ack", 0) /\ Logged(c, r.logs)
              ELSE /\ Goto(c, Handler(r.outcome),
                           IF r.outcome = "ClientError" THEN 1000 ELSE 0)
                   /\ Logged(c, r.logs \o <<HandlerLog(r.outcome)>>)
    /\ UNCHANGED <<queue, strategy, key, content, qcalls, faults, targ, tres>>

StepH(c) ==
    \/ List(c)
    \/ Fetch(c)
    \/ ProcessDown(c)
    \/ Ack(c)
    \/ PoisonDelete(c)
    \/ UnhandledDelete(c)
    \/ Sleep(c)

NextH == \E c \in Consumers : StepH(c)

SpecH == Init /\ [][NextH]_vars

(***************************************************************************)
(* C19.  Head-of-line blocking.                                            *)
(***************************************************************************)
\* Processing the body runs into a backend service error, on this and on
\* every later attempt.
BackendFails(body) == Faulted(parse_and_route(strategy, body, store, SinkDown).calls) # {}

C19_State ==
    \A k \in DOMAIN queue :
        BackendFails(queue[k]) => \A c \in Consumers : key[c] <= k

C19_Step ==
    \A k \in DOMAIN queue :
        BackendFails(queue[k]) => k \in DOMAIN queue' /\ queue'[k] = queue[k]

\* C19: a message whose processing runs into a backend service error on
\* every attempt is never removed from the queue, and the consumer never
\* fetches, applies or deletes a message listed after it.
C19_HeadOfLineBlocks == []C19_State /\ [][C19_Step]_vars

\* A delete request hit the backend error and is gone from the queue, and
\* the message behind it is the next the consumer lists.
C19_Witness ==
    /\ pc[1] = "idle"
    /\ IsDelete(content[1])
    /\ SinkClientError(1)
    /\ key[1] = 1
    /\ DOMAIN queue = {2}

(***************************************************************************)
(* C20.  Create, then delete.                                              *)
(***************************************************************************)
CreateBodies == {b \in Bodies : IsCreate(b) /\ ~CreateKeyError(b.doc)}

\* The delete request with the widgetId and the owner of a create request.
DeleteFor(b) ==
    Object(<<Type("delete"), RequestId, Item("widgetId", Lookup(b.doc, "widgetId"))>>
           \o (IF Has(b.doc, "owner") THEN <<Item("owner", Lookup(b.doc, "owner"))>>
               ELSE <<>>))

\* C20: in every reachable store and on either sink, for every create
\* request that is processed without error, the delete request with the
\* same widgetId and owner, processed next, deletes at exactly the key the
\* create wrote; after the pair the store has no entry for the widget and,
\* if the widget was absent before the create, is the store before it.
C20_CreateDeleteRoundTrip ==
    \A b \in CreateBodies :
        LET created == parse_and_route(strategy, b, store, NoFaults)
            deleted == parse_and_route(strategy, DeleteFor(b), created.store, NoFaults)
            k == TargetKey(strategy, b.doc)
        IN  created.outcome = "ok" =>
                /\ deleted.outcome = "ok"
                /\ SinkWrites(created.calls) = {1}
                /\ SinkDeletes(deleted.calls) = {2}
                /\ deleted.calls[2].key = created.calls[1].key
                /\ k \notin DOMAIN deleted.store
                /\ created.calls[1].key \notin DOMAIN deleted.store
                /\ k \notin DOMAIN store => deleted.store = store

\* The consumer processed a create request for w1 with a pair named id and
\* then the delete request for w1: the delete found nothing, and the item
\* the create wrote is in the table under w2.
C20_Witness ==
    /\ strategy = "dynamo"
    /\ pc[1] = "idle"
    /\ key[1] = 2
    /\ content[1] = DeleteW1
    /\ logs[1] = <<"warning:not_found">>
    /\ Str(<<"w2">>) \in DOMAIN store
    /\ "owner" \in DOMAIN store[Str(<<"w2">>)]

(***************************************************************************)
(* C21.  Which key a cycle deletes.                                        *)
(***************************************************************************)
\* The listing of the cycle raised.
ListingFailed(c) == Len(qcalls[c]) >= 1 /\ qcalls[c][1].raised \in FaultKinds

C21_State ==
    \A c \in Consumers :
        \* every queue delete of the cycle is for the key the cycle listed
        /\ \A i \in QDeletes(c) :
              /\ qcalls[c][i].key = key[c]
              /\ key[c] # NoKey
              /\ qcalls[c][1].api = "list_objects_v2"
              /\ qcalls[c][1].raised = "none"
        \* no key or a failed listing: no delete, on any path
        /\ key[c] = NoKey \/ ListingFailed(c) => QDeletes(c) = {}
        /\ ListingFailed(c) => key[c] = NoKey
        \* at most one distinct key is deleted per cycle
        /\ Cardinality({qcalls[c][i].key : i \in QDeletes(c)}) <= 1

C21_Step ==
    \* the key of a cycle is what its listing returned
    /\ \A c \in Consumers :
          pc[c] = "idle" /\ pc'[c] # "idle" =>
              \/ key'[c] = get_next_key_from_bucket(queue) /\ ~ListingFailed(c)'
              \/ key'[c] = NoKey /\ ListingFailed(c)'
    /\ \A c \in Consumers : pc[c] # "idle" => key'[c] = key[c]
    \* the queue changes only by the delete of the key of a running cycle
    /\ queue' # queue =>
          \E c \in Consumers :
              /\ key[c] # NoKey
              /\ queue' = delete_file_from_s3(queue, key[c])
              /\ qcalls'[c] = Append(qcalls[c], Call("delete_object", key[c], "none"))

\* C21: a cycle issues a queue delete only for the key its own listing
\* returned; when the listing returns no key or raises, the cycle issues
\* no queue delete on any path; no cycle deletes more than one distinct
\* key.
C21_DeletesOnlyListedKey == []C21_State /\ [][C21_Step]_vars

\* After a cycle that deleted its message, the next listing raised a
\* non-ClientError: the Exception clause slept and deleted nothing.
C21_Witness ==
    /\ pc[1] = "idle"
    /\ Len(qcalls[1]) = 1
    /\ qcalls[1][1].raised = "other"
    /\ key[1] = NoKey
    /\ delay[1] = 1000
    /\ DOMAIN queue = {2}

====
